---- MODULE Spec2Model ----
(***************************************************************************)
(* A state-machine model of the spikesorters HDSort adapter                *)
(* (spikesorters/hdsort/hdsort.py) and of the sorter registry and its      *)
(* generic launcher (spikesorters/sorterlist.py).                          *)
(*                                                                         *)
(* Python values are modelled as records [type, repr] so that truthiness   *)
(* and str() formatting are computed the way Python computes them.  Text   *)
(* (paths, sorter names, file contents) is a sequence of one-character     *)
(* strings, so that slicing, prefix tests and ordering can be computed.    *)
(***************************************************************************)
EXTENDS Integers, Sequences, FiniteSets, TLC

VARIABLES
    hdsort_path,            \* HDSortSorter.hdsort_path (class attribute)
    installed,              \* HDSortSorter.installed   (class attribute)
    environ,                \* os.environ["HDSORT_PATH"]
    other_installed,        \* the classes other than HDSortSorter whose .installed is true
    installed_sorter_list,  \* sorterlist.installed_sorter_list (built at import)
    reply,                  \* what the last registry query returned
    sorter,                 \* the adapter object: exists, params, delete_output_folder
    recording,              \* the Recording handed to the adapter
    folder,                 \* the Output Folder: file name -> content
    pc,                     \* position of the calling thread inside run_sorter / run
    call,                   \* the call in progress (its entry point and its argument)
    child,                  \* the child process: state and exit code
    loc,                    \* locals of the running method (samplerate, rendered text)
    error,                  \* the exception the last call raised (or no error)
    result,                 \* the Run Result the last call returned (or none)
    log,                    \* the externally visible events of the current run, in order
    hist                    \* bookkeeping of the calls made so far

vars == <<hdsort_path, installed, environ, other_installed, installed_sorter_list,
          reply, sorter, recording, folder, pc, call, child, loc, error, result,
          log, hist>>

(***************************************************************************)
(* Text                                                                    *)
(***************************************************************************)
Quote == "\""

StartsWith(s, c) == Len(s) >= 1 /\ s[1] = c

\* s[1:-1]: drops the first and the last character ('' for a string of length <= 2)
Slice1m1(s) == SubSeq(s, 2, Len(s) - 1)

RangeOf(s) == {s[i] : i \in 1..Len(s)}

(***************************************************************************)
(* Optional[str]                                                           *)
(***************************************************************************)
None == [isNone |-> TRUE, str |-> <<>>]
Some(s) == [isNone |-> FALSE, str |-> s]

(***************************************************************************)
(* The filesystem outside the Output Folder                                *)
(***************************************************************************)
Cwd == <<"/", "w">>

\* the directories that hold a '+hdsort' sub-directory
MarkerDirs == {<<"/", "a">>}

\* the components of a path: the non-empty texts between its '/' characters
\* (pathlib and the operating system both drop empty components; the model's
\* paths hold no '.' component)
RECURSIVE SplitAt(_, _, _)
SplitAt(s, i, cur) ==
    LET done == IF cur = <<>> THEN <<>> ELSE <<cur>>
    IN  IF i > Len(s) THEN done
        ELSE IF s[i] = "/" THEN done \o SplitAt(s, i + 1, <<>>)
        ELSE SplitAt(s, i + 1, Append(cur, s[i]))

Parts(s) == SplitAt(s, 1, <<>>)

RECURSIVE JoinParts(_)
JoinParts(ps) ==
    IF ps = <<>> THEN <<>> ELSE <<"/">> \o Head(ps) \o JoinParts(Tail(ps))

\* the root pathlib keeps: exactly two leading slashes stay two, any other
\* number is one
Root(s) ==
    IF Len(s) >= 2 /\ s[1] = "/" /\ s[2] = "/" /\ (Len(s) = 2 \/ s[3] # "/")
    THEN <<"/", "/">>
    ELSE <<"/">>

\* str(pathlib.Path(s).absolute()): an absolute path is kept, a relative one is
\* joined to the working directory, '' is the working directory itself
Absolute(s) ==
    IF StartsWith(s, "/")
    THEN IF Parts(s) = <<>> THEN Root(s)
         ELSE SubSeq(Root(s), 2, Len(Root(s))) \o JoinParts(Parts(s))
    ELSE JoinParts(Parts(Cwd) \o Parts(s))

\* the directory the operating system finds for a path text
Canon(s) == JoinParts(Parts(s))

\* the path strings the model passes around
Paths ==
    { <<"/", "a">>,
      <<Quote, "/", "a", Quote>>,
      <<"/", "b">> }

\* the characters of the paths handed to the probe directly
PathChars == {Quote, "/", "a", "b"}

\* hdsort.py check_if_installed
check_if_installed(p) ==
    IF p.isNone THEN FALSE
    ELSE LET q == IF StartsWith(p.str, Quote) THEN Slice1m1(p.str) ELSE p.str
         IN  Canon(Absolute(q)) \in MarkerDirs

(***************************************************************************)
(* The sorter registry (sorterlist.py)                                     *)
(***************************************************************************)
\* code-point order of the characters that occur in sorter names
Alphabet ==
    <<"0", "1", "2", "3", "4", "5", "6", "7", "8", "9",
      "a", "b", "c", "d", "e", "f", "g", "h", "i", "j", "k", "l", "m",
      "n", "o", "p", "q", "r", "s", "t", "u", "v", "w", "x", "y", "z">>

Rank(c) == CHOOSE i \in 1..Len(Alphabet) : Alphabet[i] = c

\* Python's str < str
RECURSIVE StrLess(_, _)
StrLess(a, b) ==
    IF a = <<>> THEN b # <<>>
    ELSE IF b = <<>> THEN FALSE
    ELSE IF a[1] = b[1] THEN StrLess(Tail(a), Tail(b))
    ELSE Rank(a[1]) < Rank(b[1])

\* insert x into the sorted list s, after the elements that are not greater
RECURSIVE InsertSorted(_, _)
InsertSorted(x, s) ==
    IF s = <<>> THEN <<x>>
    ELSE IF StrLess(x, s[1]) THEN <<x>> \o s
    ELSE <<s[1]>> \o InsertSorted(x, Tail(s))

\* Python's sorted(list) on a list of str
RECURSIVE sorted(_)
sorted(s) ==
    IF s = <<>> THEN <<>>
    ELSE InsertSorted(s[Len(s)], sorted(SubSeq(s, 1, Len(s) - 1)))

sorter_full_list ==
    <<"HDSortSorter",
      "KlustaSorter",
      "TridesclousSorter",
      "Mountainsort4Sorter",
      "IronClustSorter",
      "KilosortSorter",
      "Kilosort2Sorter",
      "SpykingcircusSorter",
      "HerdingspikesSorter",
      "WaveClusSorter">>

Classes == RangeOf(sorter_full_list)
OtherClasses == Classes \ {"HDSortSorter"}

\* <Class>.sorter_name
sorter_name(c) ==
    CASE c = "HDSortSorter" -> <<"h", "d", "s", "o", "r", "t">>
      [] c = "KlustaSorter" -> <<"k", "l", "u", "s", "t", "a">>
      [] c = "TridesclousSorter" -> <<"t", "r", "i", "d", "e", "s", "c", "l", "o", "u", "s">>
      [] c = "Mountainsort4Sorter" -> <<"m", "o", "u", "n", "t", "a", "i", "n", "s", "o", "r", "t", "4">>
      [] c = "IronClustSorter" -> <<"i", "r", "o", "n", "c", "l", "u", "s", "t">>
      [] c = "KilosortSorter" -> <<"k", "i", "l", "o", "s", "o", "r", "t">>
      [] c = "Kilosort2Sorter" -> <<"k", "i", "l", "o", "s", "o", "r", "t", "2">>
      [] c = "SpykingcircusSorter" -> <<"s", "p", "y", "k", "i", "n", "g", "c", "i", "r", "c", "u", "s">>
      [] c = "HerdingspikesSorter" -> <<"h", "e", "r", "d", "i", "n", "g", "s", "p", "i", "k", "e", "s">>
      [] c = "WaveClusSorter" -> <<"w", "a", "v", "e", "c", "l", "u", "s">>

\* sorter_dict = {s.sorter_name: s for s in sorter_full_list}: the keys in
\* insertion order, and for each key the last class that carries the name
RECURSIVE DictKeys(_)
DictKeys(l) ==
    IF l = <<>> THEN <<>>
    ELSE LET front == DictKeys(SubSeq(l, 1, Len(l) - 1))
             k == sorter_name(l[Len(l)])
         IN  IF k \in RangeOf(front) THEN front ELSE Append(front, k)

sorter_dict_keys == DictKeys(sorter_full_list)

sorter_dict(k) ==
    LET i == CHOOSE j \in 1..Len(sorter_full_list) :
                 /\ sorter_name(sorter_full_list[j]) = k
                 /\ \A m \in (j + 1)..Len(sorter_full_list) :
                        sorter_name(sorter_full_list[m]) # k
    IN  sorter_full_list[i]

\* <Class>.installed as it is now
ClassInstalled(c) == IF c = "HDSortSorter" THEN installed ELSE c \in other_installed

\* installed_sorter_list = [s for s in sorter_full_list if s.installed], at import
LoadInstalledList(hd, others) ==
    SelectSeq(sorter_full_list,
              LAMBDA c : IF c = "HDSortSorter" THEN hd ELSE c \in others)

MapNames(l) == [i \in 1..Len(l) |-> sorter_name(l[i])]

MutAvailableUnsorted == sorter_dict_keys

\* sorterlist.py available_sorters()
available_sorters == sorted(sorter_dict_keys)

MutInstalledNow == sorted(MapNames(SelectSeq(sorter_full_list, ClassInstalled)))

\* sorterlist.py installed_sorters()
installed_sorters == sorted(MapNames(installed_sorter_list))

(***************************************************************************)
(* Python values: [type, repr]                                             *)
(***************************************************************************)
Py(t, r) == [type |-> t, repr |-> r]

\* a key that a dict does not hold, a keyword that a call does not pass
Absent == Py("absent", "")

\* bool(v)
Truthy(v) ==
    CASE v.type = "bool"  -> v.repr = "True"
      [] v.type = "int"   -> v.repr # "0"
      [] v.type = "float" -> v.repr # "0.0"
      [] v.type = "str"   -> v.repr # ""
      [] OTHER            -> FALSE

\* '{}'.format(v)
Str(v) == v.repr

(***************************************************************************)
(* Numbers that are written to and read from text: a decimal number is     *)
(* its integer part and the digits of its fraction (no trailing zero)      *)
(***************************************************************************)
Digits == {"0", "1", "2", "3", "4", "5", "6", "7", "8", "9"}

Flt(ip, frac) == [type |-> "float", ip |-> ip, frac |-> frac]
Int_(ip) == [type |-> "int", ip |-> ip, frac |-> <<>>]

\* Python's == on numbers compares the values, not the types
NumEq(a, b) == a.ip = b.ip /\ a.frac = b.frac

DigitChar(d) == Alphabet[d + 1]
DigitVal(c) == Rank(c) - 1

RECURSIVE IntStr(_)
IntStr(n) ==
    IF n < 10 THEN <<DigitChar(n)>>
    ELSE IntStr(n \div 10) \o <<DigitChar(n % 10)>>

RECURSIVE IntVal(_)
IntVal(s) ==
    IF s = <<>> THEN 0
    ELSE 10 * IntVal(SubSeq(s, 1, Len(s) - 1)) + DigitVal(s[Len(s)])

RECURSIVE StripZeros(_)
StripZeros(s) ==
    IF s # <<>> /\ s[Len(s)] = "0" THEN StripZeros(SubSeq(s, 1, Len(s) - 1))
    ELSE s

\* a format that writes the integer part only, as '{:d}'.format(int(x)) does
MutFormatNumInt(x) == IntStr(x.ip)

\* '{}'.format(x) for an int or a float: a float always shows a fraction
FormatNum(x) ==
    IF x.type = "int" THEN IntStr(x.ip)
    ELSE IntStr(x.ip) \o <<".">> \o (IF x.frac = <<>> THEN <<"0">> ELSE x.frac)

DotAt(t) == {i \in 1..Len(t) : t[i] = "."}

\* the texts float(t) accepts (digits with at most one point)
IsFloatText(t) ==
    /\ \A i \in 1..Len(t) : t[i] \in Digits \cup {"."}
    /\ Cardinality(DotAt(t)) <= 1
    /\ \E i \in 1..Len(t) : t[i] \in Digits

\* float(t)
ParseFloat(t) ==
    IF DotAt(t) = {} THEN Flt(IntVal(t), <<>>)
    ELSE LET d == CHOOSE i \in DotAt(t) : TRUE
         IN  Flt(IntVal(SubSeq(t, 1, d - 1)), StripZeros(SubSeq(t, d + 1, Len(t))))

\* what recording.get_sampling_frequency() may return
Freqs == { Flt(30000, <<>>), Flt(12, <<"5">>), Int_(30000) }

(***************************************************************************)
(* The Parameter Table and the Parameter Set (hdsort.py, HDSortSorter)     *)
(***************************************************************************)
TableKeys ==
    {"detect_threshold", "detect_sign", "filter", "parfor", "hpf", "lpf",
     "n_pc_dims", "chunk_size", "loop_mode"}

\* the keys _setup_recording stores into self.params
SetupKeys == {"file_name", "file_format", "sort_name"}

\* every key the model can name; "adjacency_radius" is a key the HDSort table lacks
AllKeys == TableKeys \cup SetupKeys \cup {"adjacency_radius"}

\* HDSortSorter._default_params
default_params_table ==
    [k \in AllKeys |->
        CASE k = "detect_threshold" -> Py("float", "4.2")
          [] k = "detect_sign"      -> Py("int", "-1")
          [] k = "filter"           -> Py("bool", "True")
          [] k = "parfor"           -> Py("bool", "True")
          [] k = "hpf"              -> Py("int", "300")
          [] k = "lpf"              -> Py("int", "7000")
          [] k = "n_pc_dims"        -> Py("int", "6")
          [] k = "chunk_size"       -> Py("int", "500000")
          [] k = "loop_mode"        -> Py("str", "local_parfor")
          [] OTHER                  -> Absent]

\* the keys a dict holds
Keys(d) == {k \in AllKeys : d[k] # Absent}

\* dict.update
Update(d, kw) == [k \in AllKeys |-> IF kw[k] # Absent THEN kw[k] ELSE d[k]]

NoKw == [k \in AllKeys |-> Absent]

Bool(b) == Py("bool", IF b THEN "True" ELSE "False")

\* the keyword arguments a caller passes as **params
KwChoices ==
    {NoKw}
    \cup {[NoKw EXCEPT !["filter"] = Bool(f), !["parfor"] = Bool(p)] :
              f \in BOOLEAN, p \in BOOLEAN}
    \cup {[NoKw EXCEPT !["adjacency_radius"] = Py("int", "1")]}

(***************************************************************************)
(* Exceptions                                                              *)
(***************************************************************************)
\* exit_codes: the exit codes the exception object holds among its arguments
Err(t, m) == [type |-> t, msg |-> m, exit_codes |-> {}]
NoError == Err("none", "")

\* HDSortSorter.installation_mesg
installation_mesg == "To use HDSort run: git clone ... and provide the installation path"

(***************************************************************************)
(* The Output Folder                                                       *)
(***************************************************************************)
FileNames ==
    {"recording.h5", "hdsort_master.m", "hdsort_config.m", "samplerate.txt",
     "firings.mda"}

\* a file is the set of its content: empty when the file does not exist
NoFiles == [f \in FileNames |-> {}]

\* what the external tool may write as firings.mda
FiringsContents == {"spikes"}

(***************************************************************************)
(* Bounds of the model                                                     *)
(***************************************************************************)
\* run() calls made in one behaviour
MaxRuns == 2
\* result retrievals made directly by the caller in one behaviour
MaxParse == 2
\* the child process exits with a code in 0..MaxRetCode
MaxRetCode == 1
\* the longest path handed to the probe directly
MaxPathLen == 4

\* what a caller may pass to check_if_installed: None or any text
ProbeInputs ==
    {None} \cup {Some(s) : s \in UNION {[1..n -> PathChars] : n \in 0..MaxPathLen}}

RetCodes == 0..MaxRetCode

(***************************************************************************)
(* State of the adapter                                                    *)
(***************************************************************************)
\* owned: the caller holds the object (it constructed it itself; run_sorter
\* keeps the adapter it constructs to itself)
\* given: the parameter values the caller asked for (the defaults overridden
\* by every set_params so far); the code keeps no such copy
NoSorter ==
    [exists |-> FALSE, owned |-> FALSE, params |-> NoKw, given |-> NoKw, delete |-> FALSE]

NoArg == [kind |-> "none", name |-> <<>>, cls |-> ""]
NoCall == [entry |-> "none", arg |-> NoArg]

StrArg(n) == [kind |-> "str", name |-> n, cls |-> ""]
ObjArg(c) == [kind |-> "obj", name |-> <<>>, cls |-> c]

\* the values passed as sorter_name_or_class: the adapter's name, a name that
\* is not registered, the adapter's class, an object that is no adapter class
Args ==
    { StrArg(sorter_name("HDSortSorter")), StrArg(<<"x">>),
      ObjArg("HDSortSorter"), ObjArg("42") }

NoChild == [state |-> "none", retcode |-> 0]

\* nruns: run() calls so far; run: how the last run() ended; renders: what each
\* Render wrote, with its inputs; nparse, parses: the retrievals made since the
\* Output Folder was last handed to a run or a constructor, each with the
\* folder, child and log it found and with its outcome; checked: the value of
\* HDSortSorter.hdsort_path that Validate handed to the probe, kept until the
\* child starts; raced: a set_hdsort_path call has replaced that value between
\* Validate and the end of Render
NoHist ==
    [nruns |-> 0, nparse |-> 0, run |-> "none", renders |-> {}, parses |-> {},
     checked |-> None, raced |-> FALSE]

\* at: HDSortSorter.installed when the query was made; arg, ret: the argument
\* and the return value of a direct call of check_if_installed
NoReply ==
    [op |-> "none", names |-> <<>>, params |-> NoKw, error |-> NoError, at |-> FALSE,
     arg |-> None, ret |-> FALSE]

\* the events of one run, in the order Validate, Prepare, Render, Execute, Finalize
StageOrder ==
    <<"installed", "write recording.h5", "write hdsort_master.m",
      "write hdsort_config.m", "child start", "child exit", "write samplerate.txt">>

(***************************************************************************)
(* Initial state: the modules have been imported                           *)
(***************************************************************************)
InitWith(others) ==
    /\ hdsort_path \in {None} \cup {Some(p) : p \in Paths}
    /\ installed = check_if_installed(hdsort_path)
    /\ environ = hdsort_path
    /\ other_installed \in others
    /\ installed_sorter_list = LoadInstalledList(installed, other_installed)
    /\ reply = NoReply
    /\ sorter = NoSorter
    /\ recording = {}
    /\ folder = [exists |-> FALSE, files |-> NoFiles]
    /\ pc = "idle"
    /\ call = NoCall
    /\ child = NoChild
    /\ loc = [samplerate |-> {}]
    /\ error = NoError
    /\ result = {}
    /\ log = <<>>
    /\ hist = NoHist

Init == InitWith({{}})

RegistryInit == InitWith(SUBSET OtherClasses)

registryVars == <<hdsort_path, installed, environ, other_installed, installed_sorter_list, reply>>
classVars == <<hdsort_path, installed, environ>>
adapterVars == <<sorter, recording, folder, pc, call, child, loc, error, result, log, hist>>

(***************************************************************************)
(* HDSortSorter.set_hdsort_path (any thread, at any time)                  *)
(***************************************************************************)
set_hdsort_path(p) ==
    /\ hdsort_path' = Some(p)
    /\ installed' = check_if_installed(Some(p))
    /\ environ' = Some(p)
    /\ hist' = IF pc \in {"prepare", "render"} /\ hdsort_path # Some(p)
               THEN [hist EXCEPT !.raced = TRUE]
               ELSE hist
    /\ UNCHANGED <<other_installed, installed_sorter_list, reply>>
    /\ UNCHANGED <<sorter, recording, folder, pc, call, child, loc, error, result, log>>

\* check_if_installed(p) called directly
call_check_if_installed(p) ==
    /\ reply' = [NoReply EXCEPT !.op = "check_if_installed", !.arg = p,
                                !.ret = check_if_installed(p), !.at = installed]
    /\ UNCHANGED <<hdsort_path, installed, environ, other_installed, installed_sorter_list>>
    /\ UNCHANGED adapterVars

(***************************************************************************)
(* Registry queries                                                        *)
(***************************************************************************)
\* the lookup at the head of run_sorter and of get_default_params
Resolve(x) ==
    IF x.kind = "str"
    THEN IF x.name \in RangeOf(sorter_dict_keys)
         THEN [ok |-> TRUE, cls |-> sorter_dict(x.name), err |-> NoError]
         ELSE [ok |-> FALSE, cls |-> "", err |-> Err("KeyError", "sorter_name_or_class")]
    ELSE IF x.cls \in Classes
         THEN [ok |-> TRUE, cls |-> x.cls, err |-> NoError]
         ELSE [ok |-> FALSE, cls |-> "", err |-> Err("ValueError", "Unknown sorter")]

CallAvailableSorters ==
    /\ reply' = [NoReply EXCEPT !.op = "available_sorters", !.names = available_sorters,
                                !.at = installed]
    /\ UNCHANGED <<hdsort_path, installed, environ, other_installed, installed_sorter_list>>
    /\ UNCHANGED adapterVars

CallInstalledSorters ==
    /\ reply' = [NoReply EXCEPT !.op = "installed_sorters", !.names = installed_sorters,
                                !.at = installed]
    /\ UNCHANGED <<hdsort_path, installed, environ, other_installed, installed_sorter_list>>
    /\ UNCHANGED adapterVars

\* BaseSorter.default_params(): a copy of the class's _default_params
default_params == default_params_table

get_default_params(x) ==
    /\ LET r == Resolve(x)
       IN  reply' = IF r.ok
                    THEN [NoReply EXCEPT !.op = "get_default_params",
                                         !.params = default_params, !.at = installed]
                    ELSE [NoReply EXCEPT !.op = "get_default_params",
                                         !.error = r.err, !.at = installed]
    /\ UNCHANGED <<hdsort_path, installed, environ, other_installed, installed_sorter_list>>
    /\ UNCHANGED adapterVars

(***************************************************************************)
(* BaseSorter: construction, set_params, the order of run(), get_result    *)
(***************************************************************************)
\* BaseSorter.__init__: the Parameter Set is seeded from the defaults
Construct(del, owned) ==
    [exists |-> TRUE, owned |-> owned, params |-> default_params,
     given |-> default_params, delete |-> del]

\* the keys set_params rejects
BadKeys(kw) == Keys(kw) \ Keys(default_params_table)

\* BaseSorter.set_params on an accepted set of keywords
ApplyParams(s, kw) ==
    [s EXCEPT !.params = Update(s.params, kw), !.given = Update(s.given, kw)]

BadParamsError == Err("ConfigurationError", "Bad parameters")

\* an exception leaves the call in progress
Raise(e) ==
    /\ pc' = "idle"
    /\ error' = e
    /\ result' = {}
    /\ hist' = [hist EXCEPT !.run = IF pc = "parse" THEN hist.run ELSE "failed",
                            !.checked = None, !.raced = FALSE]

\* BaseSorter.run() is entered: _setup_recording comes first
BeginRun ==
    /\ pc' = "validate"
    /\ error' = NoError
    /\ result' = {}
    /\ log' = <<>>
    /\ child' = NoChild
    /\ loc' = [samplerate |-> {}]
    /\ hist' = [hist EXCEPT !.nruns = @ + 1, !.run = "none", !.nparse = 0,
                            !.parses = {}, !.checked = None, !.raced = FALSE]

\* HDSortSorter(recording=..., output_folder=..., delete_output_folder=...)
\* called by the caller itself; the Output Folder is created if absent.
\* One Output Folder is owned by one adapter: the model makes one adapter.
construct(fs, del) ==
    /\ pc = "idle"
    /\ ~sorter.exists
    /\ call' = [entry |-> "construct", arg |-> NoArg]
    /\ sorter' = Construct(del, TRUE)
    /\ recording' = {fs}
    /\ folder' = [folder EXCEPT !.exists = TRUE]
    /\ error' = NoError
    /\ result' = {}
    /\ hist' = [hist EXCEPT !.nparse = 0, !.parses = {}]
    /\ UNCHANGED <<pc, child, loc, log>>
    /\ UNCHANGED registryVars

(***************************************************************************)
(* sorterlist.py run_sorter, lines 69-79: resolve, construct, set_params,  *)
(* and enter run()                                                         *)
(***************************************************************************)
run_sorter(x, fs, del, kw) ==
    /\ pc = "idle"
    /\ ~sorter.exists
    /\ call' = [entry |-> "run_sorter", arg |-> x]
    /\ LET r == Resolve(x)
       IN  IF ~r.ok
           THEN /\ error' = r.err
                /\ result' = {}
                /\ UNCHANGED <<sorter, recording, folder, pc, child, loc, log, hist>>
           ELSE /\ r.cls = "HDSortSorter"
                /\ recording' = {fs}
                /\ folder' = [folder EXCEPT !.exists = TRUE]
                /\ IF BadKeys(kw) # {}
                   THEN /\ sorter' = Construct(del, FALSE)
                        /\ error' = BadParamsError
                        /\ result' = {}
                        /\ hist' = [hist EXCEPT !.nparse = 0, !.parses = {}]
                        /\ UNCHANGED <<pc, child, loc, log>>
                   ELSE /\ sorter' = ApplyParams(Construct(del, FALSE), kw)
                        /\ BeginRun
    /\ UNCHANGED registryVars

\* sorter.set_params(**kw) called by the owner of the adapter; the Parameter
\* Set is frozen once the run starts
set_params(kw) ==
    /\ pc = "idle"
    /\ sorter.exists /\ sorter.owned
    /\ hist.nruns = 0
    /\ call' = [entry |-> "set_params", arg |-> NoArg]
    /\ result' = {}
    /\ IF BadKeys(kw) # {}
       THEN error' = BadParamsError /\ UNCHANGED sorter
       ELSE error' = NoError /\ sorter' = ApplyParams(sorter, kw)
    /\ UNCHANGED <<recording, folder, pc, child, loc, log, hist>>
    /\ UNCHANGED registryVars

\* sorter.run() called by the owner of the adapter
run ==
    /\ pc = "idle"
    /\ sorter.exists /\ sorter.owned
    /\ hist.nruns < MaxRuns
    /\ call' = [entry |-> "run", arg |-> NoArg]
    /\ BeginRun
    /\ UNCHANGED <<sorter, recording, folder>>
    /\ UNCHANGED registryVars

(***************************************************************************)
(* HDSortSorter._setup_recording                                           *)
(***************************************************************************)
\* an error that does not quote the installation instructions
MutInstallErrorBare == Err("Exception", "HDSort is not installed")

\* line 103
InstallError == Err("Exception", installation_mesg)

\* lines 102-104
setup_validate ==
    /\ pc = "validate"
    /\ IF ~check_if_installed(hdsort_path)
       THEN /\ Raise(InstallError)
            /\ UNCHANGED log
       ELSE /\ pc' = "prepare"
            /\ log' = Append(log, "installed")
            /\ hist' = [hist EXCEPT !.checked = hdsort_path]
            /\ UNCHANGED <<error, result>>
    /\ UNCHANGED <<sorter, recording, folder, call, child, loc>>
    /\ UNCHANGED registryVars

\* a setup that stores one more key into self.params
MutPrepareParamsExtraKey(p) ==
    [p EXCEPT !["file_name"] = Py("str", "/out/recording.h5"),
              !["file_format"] = Py("str", "mea1k"),
              !["sort_name"] = Py("str", "hdsort_output"),
              !["adjacency_radius"] = Py("int", "1")]

\* lines 125-129: the keys stored into self.params
PrepareParams(p) ==
    [p EXCEPT !["file_name"] = Py("str", "/out/recording.h5"),
              !["file_format"] = Py("str", "mea1k"),
              !["sort_name"] = Py("str", "hdsort_output")]

\* lines 122-129
setup_prepare ==
    /\ pc = "prepare"
    /\ IF ~folder.exists
       THEN /\ Raise(Err("OSError", "recording.h5"))
            /\ UNCHANGED <<folder, sorter, log>>
       ELSE /\ folder' = [folder EXCEPT !.files["recording.h5"] = recording]
            /\ sorter' = [sorter EXCEPT !.params = PrepareParams(@)]
            /\ pc' = "render"
            /\ log' = Append(log, "write recording.h5")
            /\ UNCHANGED <<error, result, hist>>
    /\ UNCHANGED <<recording, call, child, loc>>
    /\ UNCHANGED registryVars

\* BaseSorter.run(): _run follows _setup_recording
AfterSetup == "start"

\* a render that strips the quotes from the install path as the probe does
MutMasterTextUnquoted(p, path) ==
    [hdsort_path |-> Absolute(IF StartsWith(path.str, Quote)
                              THEN Slice1m1(path.str) ELSE path.str),
     utils_path |-> "/pkg/utils",
     output_folder |-> "/out",
     config_path |-> "/out/hdsort_config.m",
     file_name |-> Str(p["file_name"]),
     file_format |-> Str(p["file_format"]),
     sort_name |-> Str(p["sort_name"]),
     chunk_size |-> Str(p["chunk_size"]),
     loop_mode |-> Str(p["loop_mode"])]

\* lines 138-149: the values substituted into hdsort_master.m
MasterText(p, path) ==
    [hdsort_path |-> Absolute(path.str),
     utils_path |-> "/pkg/utils",
     output_folder |-> "/out",
     config_path |-> "/out/hdsort_config.m",
     file_name |-> Str(p["file_name"]),
     file_format |-> Str(p["file_format"]),
     sort_name |-> Str(p["sort_name"]),
     chunk_size |-> Str(p["chunk_size"]),
     loop_mode |-> Str(p["loop_mode"])]

\* lines 151-159: filter and parfor are overwritten in self.params
ConvertFlags(p) ==
    [p EXCEPT !["filter"] = IF Truthy(p["filter"]) THEN Py("int", "1") ELSE Py("int", "0"),
              !["parfor"] = IF Truthy(p["parfor"]) THEN Py("str", "true")
                                                   ELSE Py("str", "false")]

\* lines 161-168: the values substituted into hdsort_config.m
ConfigText(p) ==
    [filter |-> Str(p["filter"]),
     parfor |-> Str(p["parfor"]),
     hpf |-> Str(p["hpf"]),
     lpf |-> Str(p["lpf"]),
     detect_threshold |-> Str(p["detect_threshold"]),
     n_pc_dims |-> Str(p["n_pc_dims"])]

\* lines 132-173
setup_render ==
    /\ pc = "render"
    /\ IF hdsort_path.isNone
       THEN /\ Raise(Err("TypeError", "hdsort_path"))
            /\ UNCHANGED <<folder, sorter, log>>
       ELSE LET master == MasterText(sorter.params, hdsort_path)
                p == ConvertFlags(sorter.params)
                config == ConfigText(p)
            IN  /\ sorter' = [sorter EXCEPT !.params = p]
                /\ folder' = [folder EXCEPT !.files["hdsort_master.m"] = {master},
                                            !.files["hdsort_config.m"] = {config}]
                /\ pc' = AfterSetup
                /\ log' = log \o <<"write hdsort_master.m", "write hdsort_config.m">>
                /\ hist' = [hist EXCEPT !.renders = @ \cup
                               {[path |-> hdsort_path, given |-> sorter.given,
                                 master |-> master, config |-> config]}]
                /\ UNCHANGED <<error, result>>
    /\ UNCHANGED <<recording, call, child, loc>>
    /\ UNCHANGED registryVars

(***************************************************************************)
(* HDSortSorter._run                                                       *)
(***************************************************************************)
\* a _run that starts the child and does not wait for it
MutRunStartNoWait ==
    /\ pc = "start"
    /\ folder' = [folder EXCEPT !.exists = TRUE]
    /\ loc' = [loc EXCEPT !.samplerate = recording]
    /\ child' = [state |-> "running", retcode |-> 0]
    /\ log' = Append(log, "child start")
    /\ pc' = "finalize"
    /\ hist' = [hist EXCEPT !.checked = None, !.raced = FALSE]
    /\ UNCHANGED <<sorter, recording, call, error, result>>
    /\ UNCHANGED registryVars

\* lines 176-193: makedirs, read the sampling frequency, start the child
run_start ==
    /\ pc = "start"
    /\ folder' = [folder EXCEPT !.exists = TRUE]
    /\ loc' = [loc EXCEPT !.samplerate = recording]
    /\ child' = [state |-> "running", retcode |-> 0]
    /\ log' = Append(log, "child start")
    /\ pc' = "wait"
    /\ hist' = [hist EXCEPT !.checked = None, !.raced = FALSE]
    /\ UNCHANGED <<sorter, recording, call, error, result>>
    /\ UNCHANGED registryVars

\* line 195: shell_cmd.wait() returns when the child has exited; the child
\* may have written firings.mda
run_wait(rc, wrote) ==
    /\ pc = "wait"
    /\ child.state = "running"
    /\ child' = [state |-> "exited", retcode |-> rc]
    /\ folder' = [folder EXCEPT !.files["firings.mda"] = IF wrote = {} THEN @ ELSE wrote]
    /\ log' = Append(log, "child exit")
    /\ pc' = "finalize"
    /\ UNCHANGED <<sorter, recording, call, loc, error, result, hist>>
    /\ UNCHANGED registryVars

\* a check that lets positive exit codes through
MutExitFailedNegative(rc) == rc < 0

\* line 197
ExitFailed(rc) == rc # 0

\* line 198
ExitError(rc) == Err("Exception", "HDsort returned a non-zero exit code")

\* what follows a completed run(): run_sorter goes on to get_result
AfterRun == IF call.entry = "run_sorter" THEN "parse" ELSE "idle"

\* lines 197-202
run_finalize ==
    /\ pc = "finalize"
    /\ IF ExitFailed(child.retcode)
       THEN /\ Raise(ExitError(child.retcode))
            /\ UNCHANGED <<folder, log>>
       ELSE /\ folder' = [folder EXCEPT
                             !.files["samplerate.txt"] =
                                 {FormatNum(s) : s \in loc.samplerate}]
            /\ log' = Append(log, "write samplerate.txt")
            /\ pc' = AfterRun
            /\ hist' = [hist EXCEPT !.run = "ok"]
            /\ UNCHANGED <<error, result>>
    /\ UNCHANGED <<sorter, recording, call, child, loc>>
    /\ UNCHANGED registryVars

(***************************************************************************)
(* Parse                                                                   *)
(***************************************************************************)
The(S) == CHOOSE x \in S : TRUE

\* HDSortSorter.get_result_from_folder, lines 205-216; MdaSortingExtractor
\* reads firings.mda
get_result_from_folder(fo) ==
    IF ~fo.exists \/ fo.files["samplerate.txt"] = {}
    THEN [error |-> Err("FileNotFoundError", "samplerate.txt"), result |-> {}]
    ELSE IF ~IsFloatText(The(fo.files["samplerate.txt"]))
    THEN [error |-> Err("ValueError", "samplerate.txt"), result |-> {}]
    ELSE IF fo.files["firings.mda"] = {}
    THEN [error |-> Err("FileNotFoundError", "firings.mda"), result |-> {}]
    ELSE [error |-> NoError,
          result |-> {[firings |-> The(fo.files["firings.mda"]),
                       sampling_frequency |-> ParseFloat(The(fo.files["samplerate.txt"]))]}]

Removed == [exists |-> FALSE, files |-> NoFiles]

\* the Output Folder after BaseSorter.get_result: deleted after the result
\* retrieval when delete_output_folder was asked for
AfterRetrieval(fo, del, out) ==
    IF out.error = NoError /\ del THEN Removed ELSE fo

\* the effect of one retrieval; del: the folder is to be deleted afterwards
Retrieve(del, via) ==
    LET out == get_result_from_folder(folder)
    IN  /\ error' = out.error
        /\ result' = out.result
        /\ folder' = AfterRetrieval(folder, del, out)
        /\ hist' = [hist EXCEPT !.nparse = @ + 1,
                                !.parses = @ \cup {[via |-> via, folder |-> folder,
                                                    child |-> child, log |-> log,
                                                    out |-> out]}]
        /\ pc' = "idle"

\* sorterlist.py run_sorter, lines 80-82
run_sorter_get_result ==
    /\ pc = "parse"
    /\ Retrieve(sorter.delete, "get_result")
    /\ UNCHANGED <<sorter, recording, call, child, loc, log>>
    /\ UNCHANGED registryVars

\* sorter.get_result() called by the owner of the adapter
get_result ==
    /\ pc = "idle"
    /\ sorter.exists /\ sorter.owned
    /\ hist.nparse < MaxParse
    /\ call' = [entry |-> "get_result", arg |-> NoArg]
    /\ Retrieve(sorter.delete, "get_result")
    /\ UNCHANGED <<sorter, recording, child, loc, log>>
    /\ UNCHANGED registryVars

\* a static retrieval that clears the Output Folder
MutGetResultFromFolderClears ==
    /\ pc = "idle"
    /\ hist.nparse < MaxParse
    /\ call' = [entry |-> "get_result_from_folder", arg |-> NoArg]
    /\ Retrieve(TRUE, "get_result_from_folder")
    /\ UNCHANGED <<sorter, recording, child, loc, log>>
    /\ UNCHANGED registryVars

\* HDSortSorter.get_result_from_folder(output_folder) called directly
call_get_result_from_folder ==
    /\ pc = "idle"
    /\ hist.nparse < MaxParse
    /\ call' = [entry |-> "get_result_from_folder", arg |-> NoArg]
    /\ Retrieve(FALSE, "get_result_from_folder")
    /\ UNCHANGED <<sorter, recording, child, loc, log>>
    /\ UNCHANGED registryVars

(***************************************************************************)
(* Specifications                                                          *)
(***************************************************************************)
Next ==
    \/ \E p \in Paths : set_hdsort_path(p)
    \/ \E fs \in Freqs, del \in BOOLEAN : construct(fs, del)
    \/ \E x \in Args, fs \in Freqs, del \in BOOLEAN, kw \in KwChoices :
           run_sorter(x, fs, del, kw)
    \/ \E kw \in KwChoices : set_params(kw)
    \/ run
    \/ setup_validate
    \/ setup_prepare
    \/ setup_render
    \/ run_start
    \/ \E rc \in RetCodes, wrote \in {{}} \cup {{c} : c \in FiringsContents} :
           run_wait(rc, wrote)
    \/ run_finalize
    \/ run_sorter_get_result
    \/ get_result
    \/ call_get_result_from_folder

Spec == Init /\ [][Next]_vars

RegistryNext ==
    \/ \E p \in Paths : set_hdsort_path(p)
    \/ CallAvailableSorters
    \/ CallInstalledSorters
    \/ \E x \in Args : get_default_params(x)

RegistrySpec == RegistryInit /\ [][RegistryNext]_vars

ProbeNext == \E p \in ProbeInputs : call_check_if_installed(p)

ProbeSpec == Init /\ [][ProbeNext]_vars

(***************************************************************************)
(* Properties                                                              *)
(***************************************************************************)
IsPrefix(s, t) == Len(s) <= Len(t) /\ SubSeq(t, 1, Len(s)) = s

\* the launcher has just failed because the child exited with a non-zero code
ExecuteFailed ==
    /\ pc = "idle"
    /\ call.entry = "run_sorter"
    /\ child.state = "exited"
    /\ child.retcode # 0

\* C1, as the specification states it: when the child process exits with a
\* non-zero code c, run_sorter fails with an error that carries c, and Parse
\* is not invoked for that run.
C1_ExitCodeCarried ==
    ExecuteFailed =>
        /\ error # NoError
        /\ child.retcode \in error.exit_codes
        /\ hist.nparse = 0

\* C1, amended: when the child process exits with a non-zero code, run_sorter
\* fails with a plain Exception whose only argument is the fixed message (the
\* same for every exit code, which it does not carry); Parse is not invoked
\* for that run, no result is returned and samplerate.txt is not written.
C1_ExitFailureIsGeneric ==
    ExecuteFailed =>
        /\ error = [type |-> "Exception",
                    msg |-> "HDsort returned a non-zero exit code",
                    exit_codes |-> {}]
        /\ hist.nparse = 0
        /\ result = {}
        /\ hist.run = "failed"
        /\ "write samplerate.txt" \notin RangeOf(log)

C1_Witness ==
    /\ ExecuteFailed
    /\ child.retcode = 1
    /\ error.type = "Exception"
    /\ "child exit" \in RangeOf(log)

\* C2: within one run the events happen in the order Validate, Prepare
\* (recording.h5), Render (hdsort_master.m, hdsort_config.m), Execute (child
\* start, child exit), Finalize (samplerate.txt); the child is not running
\* unless both rendered scripts were written in this run and are on disk, and
\* samplerate.txt is written in a run only after its child has exited.
C2_StagesInOrder ==
    /\ IsPrefix(log, StageOrder)
    /\ child.state # "none" =>
           {"write recording.h5", "write hdsort_master.m", "write hdsort_config.m"}
               \subseteq RangeOf(log)
    /\ child.state = "running" =>
           /\ folder.files["hdsort_master.m"] # {}
           /\ folder.files["hdsort_config.m"] # {}
           /\ folder.files["recording.h5"] # {}
    /\ "write samplerate.txt" \in RangeOf(log) =>
           /\ child.state = "exited"
           /\ "child exit" \in RangeOf(log)
    /\ pc = "wait" <=> child.state = "running"

C2_Witness ==
    /\ log = StageOrder
    /\ folder.files["samplerate.txt"] # {}
    /\ child.state = "exited"

\* line 74: the error raised for a value that is neither a name nor a class
UnknownSorterError == Err("ValueError", "Unknown sorter")

\* C3: for every value of sorter_name_or_class that is neither a registered
\* name nor a registered class, run_sorter fails with the one error for an
\* unknown sorter, whether the value is a string or not, and constructs no
\* adapter, runs nothing and returns no result.
C3_UnknownSorterOneError ==
    (pc = "idle" /\ call.entry = "run_sorter" /\ ~Resolve(call.arg).ok) =>
        /\ error = UnknownSorterError
        /\ ~sorter.exists
        /\ hist.nruns = 0
        /\ result = {}

\* C4, as the specification states it: every Render of one adapter with the
\* same install path and the same caller-supplied parameter values writes the
\* same hdsort_master.m and the same hdsort_config.m.
C4_RenderIdempotent ==
    \A a \in hist.renders, b \in hist.renders :
        (a.path = b.path /\ a.given = b.given) =>
            (a.master = b.master /\ a.config = b.config)

\* C5, as the specification states it: every key of self.params is a key of
\* _default_params.
C5_KeysInTable ==
    sorter.exists => Keys(sorter.params) \subseteq Keys(default_params_table)

\* C5, amended: until the adapter's first run is set up, the keys of
\* self.params are exactly the keys of _default_params (set_params adds
\* none); _setup_recording adds the three keys file_name, file_format and
\* sort_name, which are not in the table, and nothing ever adds another key.
C5_KeysInTableOrSetup ==
    sorter.exists =>
        /\ Keys(default_params_table) \subseteq Keys(sorter.params)
        /\ Keys(sorter.params) \subseteq Keys(default_params_table) \cup SetupKeys
        /\ "write recording.h5" \notin RangeOf(log) /\ hist.nruns <= 1 =>
               Keys(sorter.params) = Keys(default_params_table)
        /\ "write recording.h5" \in RangeOf(log) =>
               Keys(sorter.params) = Keys(default_params_table) \cup SetupKeys

C5_Witness ==
    /\ sorter.exists
    /\ sorter.given["parfor"] = Bool(FALSE)
    /\ pc = "render"
    /\ Keys(sorter.params) = Keys(default_params_table) \cup SetupKeys
    /\ SetupKeys \cap Keys(default_params_table) = {}

ChildStarts == {i \in 1..Len(log) : log[i] = "child start"}

\* C6, as the specification states it: a run starts the external tool at most
\* once, and every retrieval (get_result, get_result_from_folder) leaves the
\* Output Folder, the child process and the run's events as it found them,
\* and retrievals that find the same folder return the same.
C6_RetrievalsReadOnly ==
    /\ Cardinality(ChildStarts) <= 1
    /\ \A s \in hist.parses : folder = s.folder /\ child = s.child /\ log = s.log
    /\ \A a \in hist.parses, b \in hist.parses : a.folder = b.folder => a.out = b.out

\* a get_result of an adapter made with delete_output_folder has succeeded
FolderDeleted ==
    /\ sorter.exists
    /\ sorter.delete
    /\ \E g \in hist.parses : g.via = "get_result" /\ g.out.error = NoError

\* C6, amended: a run starts the external tool at most once; no retrieval
\* starts the tool; get_result_from_folder leaves the Output Folder as it
\* found it, and so does get_result unless the adapter was made with
\* delete_output_folder, in which case a successful get_result removes the
\* folder; retrievals that find the same folder return the same.
C6_RetrievalsReadOnlyUnlessDelete ==
    /\ Cardinality(ChildStarts) <= 1
    /\ \A s \in hist.parses :
           /\ child = s.child
           /\ log = s.log
           /\ child.state # "running"
           /\ folder = s.folder \/ (FolderDeleted /\ folder = Removed)
    /\ \A a \in hist.parses, b \in hist.parses : a.folder = b.folder => a.out = b.out

C6_Witness ==
    /\ hist.run = "ok"
    /\ hist.nparse >= 2
    /\ result # {}
    /\ Cardinality(ChildStarts) = 1
    /\ \E a \in hist.parses, b \in hist.parses : a.via # b.via

\* C7: after a run in which the external tool exited with code 0, a retrieval
\* that finds the tool's output file succeeds, and the sampling frequency of
\* its result, read from samplerate.txt alone, equals the sampling frequency
\* of the run's Recording.
C7_SamplingFrequencyRoundTrip ==
    \A s \in hist.parses :
        (hist.run = "ok" /\ s.folder.exists /\ s.folder.files["firings.mda"] # {}) =>
            /\ s.out.error = NoError
            /\ s.out.result # {}
            /\ \A r \in s.out.result, f \in recording : NumEq(r.sampling_frequency, f)
            /\ recording # {}

C7_Witness ==
    /\ hist.run = "ok"
    /\ pc = "idle"
    /\ call.entry = "run_sorter"
    /\ recording = {Flt(12, <<"5">>)}
    /\ \E r \in result : r.sampling_frequency = Flt(12, <<"5">>)

\* C8: when the Validate stage finds the tool not installed (the probe is
\* false for HDSortSorter.hdsort_path), the run fails there with an error
\* whose message is the installation instructions; nothing has been written
\* to the Output Folder by the run and no child process has been started.
C8_NotInstalledFailsInValidate ==
    [][(pc = "validate" /\ pc' # "validate" /\ ~check_if_installed(hdsort_path)) =>
          /\ pc' = "idle"
          /\ error'.type = "Exception"
          /\ error'.msg = installation_mesg
          /\ result' = {}
          /\ folder' = folder
          /\ log' = <<>>
          /\ child' = NoChild
          /\ hist.nruns = 1 => folder'.files = NoFiles]_vars

C8_Witness ==
    /\ pc = "idle"
    /\ call.entry = "run_sorter"
    /\ ~check_if_installed(hdsort_path)
    /\ error.msg = installation_mesg
    /\ log = <<>>
    /\ folder.files = NoFiles
    /\ hist.run = "failed"

\* s is in ascending order and holds no string twice
StrictlySorted(s) == \A i \in 1..Len(s), j \in 1..Len(s) : i < j => StrLess(s[i], s[j])

\* C9: in every state, also after set_hdsort_path calls, available_sorters()
\* is alphabetically sorted and without duplicates, and every name that
\* installed_sorters() returns is returned by available_sorters() too; the
\* same holds of what the calls have returned.
C9_AvailableSortedInstalledSubset ==
    /\ StrictlySorted(available_sorters)
    /\ RangeOf(available_sorters) = {sorter_name(c) : c \in Classes}
    /\ RangeOf(installed_sorters) \subseteq RangeOf(available_sorters)
    /\ reply.op = "available_sorters" => StrictlySorted(reply.names)
    /\ reply.op = "installed_sorters" =>
           RangeOf(reply.names) \subseteq RangeOf(available_sorters)

C9_Witness ==
    /\ reply.op = "installed_sorters"
    /\ Len(reply.names) >= 2
    /\ Len(reply.names) < Len(available_sorters)
    /\ installed # (sorter_name("HDSortSorter") \in RangeOf(reply.names))

\* C10: the registry's installed set is fixed when the registry is loaded:
\* what installed_sorters() returned stays what it returns after any later
\* set_hdsort_path call, also one that changes HDSortSorter.installed.
C10_InstalledSortersFixedAtLoad ==
    reply.op = "installed_sorters" => reply.names = installed_sorters

C10_Witness ==
    /\ reply.op = "installed_sorters"
    /\ ~reply.at
    /\ installed
    /\ sorter_name("HDSortSorter") \notin RangeOf(installed_sorters)
    /\ reply.names = installed_sorters

\* a text without its surrounding pair of quote characters
StripQuotePair(s) ==
    IF Len(s) >= 2 /\ s[1] = Quote /\ s[Len(s)] = Quote THEN Slice1m1(s) ELSE s

\* a text without the quote character at its start and the one at its end
StripQuoteEnds(s) ==
    LET a == IF StartsWith(s, Quote) THEN Tail(s) ELSE s
    IN  IF a # <<>> /\ a[Len(a)] = Quote THEN SubSeq(a, 1, Len(a) - 1) ELSE a

HasMarker(s) == Canon(Absolute(s)) \in MarkerDirs

\* C11: check_if_installed(path) raises nothing, returns false for None, and
\* for a text returns true exactly when the marker directory exists under the
\* absolute path of the text with its surrounding quote characters, and only
\* those, stripped (the quotes read as a pair or as each end, whichever the
\* result agrees with).
C11_ProbeStripsOnlyQuotes ==
    reply.op = "check_if_installed" =>
        /\ reply.error = NoError
        /\ IF reply.arg.isNone
           THEN reply.ret = FALSE
           ELSE reply.ret \in {HasMarker(StripQuotePair(reply.arg.str)),
                               HasMarker(StripQuoteEnds(reply.arg.str))}

\* Render has just written the scripts of the run in progress
Rendered == pc = "start" /\ folder.files["hdsort_master.m"] # {}

\* the install path written into hdsort_master.m is the absolute form of path
RenderedFrom(path) ==
    \A m \in folder.files["hdsort_master.m"] : m.hdsort_path = Absolute(path.str)

RunStep ==
    \/ pc' # pc
    \/ sorter' # sorter
    \/ folder' # folder
    \/ child' # child
    \/ log' # log

====
